---- MODULE Spec2Model ----
(***************************************************************************)
(* Request-metrics aggregation of src/app.py: the before/after request     *)
(* hooks, the rolling window request_times, the Prometheus counter and     *)
(* histogram, and the handlers that read them; and the configuration       *)
(* classes of src/config.py.                                               *)
(*                                                                         *)
(* Each worker thread serves one request at a time.  A step of a worker is *)
(* one access to shared state (a list method, a len(), a sum(), a counter  *)
(* increment): CPython runs each of these without switching threads, and   *)
(* may switch between any two of them.  The code takes no lock.            *)
(*                                                                         *)
(* Time is counted in whole seconds; the clock never runs backwards.       *)
(* Floating-point rounding is not modelled: quotients are exact rationals. *)
(***************************************************************************)
EXTENDS Integers, Sequences, FiniteSets, TLC

\* ------------------------------------------------------------------ bounds

\* Requests that start after the initial state.
MaxRequests == 2
\* Largest clock reading.
MaxTime == 1
\* Environment variables set before the configuration is built.
MaxEnvSet == 3

\* ------------------------------------------------------- program constants

\* app.py:115  len(request_times) > 1000
Capacity == 1000

\* Worker threads of the HTTP layer.
Workers == {1, 2}
\* The requests clients send: <<method, path>>.
Requests ==
    {<<"GET", "/health">>, <<"GET", "/api/v1/metrics">>, <<"GET", "/nonexistent">>}
\* The routes the model exercises.
Routes == {"/health", "/api/v1/metrics", "/api/v1/status", "/api/v1/info"}

\* prometheus_client's default histogram buckets, in milliseconds; the last
\* bucket is +Inf.
UpperBoundsMs == <<5, 10, 25, 50, 75, 100, 250, 500, 750, 1000, 2500, 5000, 7500, 10000>>
InfBucket == Len(UpperBoundsMs) + 1
Buckets == 1..InfBucket

VARIABLES
    start_time,       \* app.py:90
    now,              \* the reading of time.time()
    request_times,    \* app.py:91, the rolling window
    REQUEST_COUNT,    \* app.py:64, label tuple -> value, for the created children
    REQUEST_LATENCY,  \* app.py:67, [buckets, sum]
    pc,               \* worker -> position in its request
    req,              \* worker -> the request, its response and the locals
    past,             \* ghost: the number of requests served before the first state
    recorded,         \* ghost: every duration appended since, in append order
    evicted,          \* ghost: the number of pop(0) calls so far
    seen,             \* ghost: worker -> window states that existed during its handler
    served,           \* ghost: label tuple -> requests whose after_request returned
    started,          \* ghost: the number of requests started
    app_config,       \* app.py:49, app.config: key -> value
    cache,            \* app.py:52, the entries of the Cache: key -> [value, stored]
    computed,         \* ghost: the number of times the info payload was built
    reported,         \* ghost: the uptimes reported so far, newest last
    environ,          \* os.environ: name -> value
    config,           \* the object get_config() returned, NoConfig before the call
    asked,            \* ghost: <<a>> once get_config(a) has been called
    validated,        \* <<r>> once config.validate() has returned r
    dumped            \* <<d>> once config.to_dict() has returned d

\* The configuration side: src/config.py reads os.environ only.
cfgvars == <<environ, config, asked, validated, dumped>>
\* What the info endpoint reads and writes.
infovars == <<app_config, cache, computed>>
\* Everything the metrics hooks leave alone.
aux == <<infovars, cfgvars, reported>>

vars == <<start_time, now, request_times, REQUEST_COUNT, REQUEST_LATENCY, pc, req,
          past, recorded, evicted, seen, served, started, app_config, cache, computed,
          reported, environ, config, asked, validated, dumped>>

\* ----------------------------------------------------------------- helpers

Min(a, b) == IF a <= b THEN a ELSE b

\* sum() of a list, by halving so that long lists need little stack.
RECURSIVE SumRange(_, _, _)
SumRange(s, lo, hi) ==
    IF lo > hi THEN 0
    ELSE IF lo = hi THEN s[lo]
    ELSE LET mid == (lo + hi) \div 2
         IN SumRange(s, lo, mid) + SumRange(s, mid + 1, hi)

Sum(s) == SumRange(s, 1, Len(s))

\* An exact quotient num / den, den > 0.
Rat(n, d) == [num |-> n, den |-> d]
Zero == Rat(0, 1)
RatEq(a, b) == a.num * b.den = b.num * a.den

\* The requests served before the first state: n GET /health requests
\* answered 200, one after the other; the first took one second, the others
\* less than the clock resolves.
PastDuration(i) == IF i = 1 THEN 1 ELSE 0
Past(n) == [i \in 1..n |-> PastDuration(i)]
PastKey == <<"GET", "/health", 200>>
PastSizes == {0, Capacity - 1, Capacity}

\* ghost: every duration ever appended, in append order.
history == Past(past) \o recorded
Appended == past + Len(recorded)

\* The window state that held appends e+1 .. a.
WindowAt(e, a) == SubSeq(history, e + 1, a)
WindowId == <<evicted, Appended>>

\* The bucket an observation of d seconds falls in (first bound >= amount).
BucketOf(d) ==
    LET fits == {i \in 1..Len(UpperBoundsMs) : d * 1000 <= UpperBoundsMs[i]}
    IN IF fits = {} THEN InfBucket
       ELSE CHOOSE i \in fits : \A j \in fits : i <= j

\* Faulty variant of Inc: the increment rebuilds the family with the one child.
Inc_DropOthers(counter, key) ==
    [k \in {key} |-> IF key \in DOMAIN counter THEN counter[key] + 1 ELSE 1]

\* Counter.labels(...).inc(): the child is created at 0 on first use.
Inc(counter, key) ==
    IF key \in DOMAIN counter
    THEN [counter EXCEPT ![key] = @ + 1]
    ELSE [k \in DOMAIN counter \cup {key} |-> IF k = key THEN 1 ELSE counter[k]]

\* Faulty variant of Observe: the bucket is assigned, not incremented.
Observe_Assign(h, d) ==
    [buckets |-> [h.buckets EXCEPT ![BucketOf(d)] = 1], sum |-> h.sum + d]

\* Histogram.observe(amount)
Observe(h, d) ==
    [buckets |-> [h.buckets EXCEPT ![BucketOf(d)] = @ + 1], sum |-> h.sum + d]

\* ghost: one more occurrence of k.
Tally(f, k) ==
    [j \in DOMAIN f \cup {k} |->
        (IF j \in DOMAIN f THEN f[j] ELSE 0) + (IF j = k THEN 1 ELSE 0)]

\* The value of f at k, 0 where f has no k.
ValueAt(f, k) == IF k \in DOMAIN f THEN f[k] ELSE 0

RECURSIVE SumOver(_, _)
SumOver(f, S) ==
    IF S = {} THEN 0
    ELSE LET k == CHOOSE x \in S : TRUE IN f[k] + SumOver(f, S \ {k})

\* The sum of the values of f.
Total(f) == SumOver(f, DOMAIN f)

NoBody == [kind |-> "none"]
NoRequest ==
    [method |-> "", path |-> "", start_time |-> 0, status |-> 0, body |-> NoBody,
     duration |-> 0, sum |-> 0, avg |-> Zero, rps |-> Zero]

\* ------------------------------------------------------------------- Init

EmptyHistogram == [buckets |-> [b \in Buckets |-> 0], sum |-> 0]

\* The histogram after observing every element of s.
HistogramOf(s) ==
    [buckets |-> [b \in Buckets |-> Cardinality({i \in 1..Len(s) : BucketOf(s[i]) = b})],
     sum |-> Sum(s)]

\* config.get_config() has not been called.
NoConfig == [cls |-> "none"]

\* No variable set, nothing built.
ConfigInit ==
    /\ environ = <<>>
    /\ config = NoConfig
    /\ asked = <<>>
    /\ validated = <<>>
    /\ dumped = <<>>

\* The process after n earlier requests, with app.config holding cfg.
AppInit(n, cfg) ==
    /\ start_time = 0
    /\ now = IF n = 0 THEN 0 ELSE PastDuration(1)
    /\ request_times = Past(n)
    /\ REQUEST_COUNT = IF n = 0 THEN <<>> ELSE (PastKey :> n)
    /\ REQUEST_LATENCY = HistogramOf(Past(n))
    /\ pc = [w \in Workers |-> "idle"]
    /\ req = [w \in Workers |-> NoRequest]
    /\ past = n
    /\ recorded = <<>>
    /\ evicted = 0
    /\ seen = [w \in Workers |-> {}]
    /\ served = IF n = 0 THEN <<>> ELSE (PastKey :> n)
    /\ started = 0
    /\ app_config = cfg
    /\ cache = <<>>
    /\ computed = 0
    /\ reported = <<>>

\* app.py:49  from_object("config.Config") finds no upper-case attribute on the
\* class (Config sets them in __init__), so app.config holds Flask's own keys.
Init == \E n \in PastSizes : AppInit(n, <<>>) /\ ConfigInit

\* ---------------------------------------------------------------- actions

HandlerPcs == {"m_sum", "m_len", "m_rps", "m_total"}

\* ghost: the window became state wid; every handler in progress has seen it.
SeenAfter(wid) ==
    [v \in Workers |-> IF pc[v] \in HandlerPcs THEN seen[v] \cup {wid} ELSE seen[v]]

\* app.py:94-104  before_request.  The pool hands a request to its first idle
\* worker (the workers are interchangeable).
before_request(w, m, p) ==
    /\ pc[w] = "idle"
    /\ \A v \in Workers : v < w => pc[v] # "idle"
    /\ started < MaxRequests
    /\ req' = [req EXCEPT ![w] =
                  [NoRequest EXCEPT !.method = m, !.path = p, !.start_time = now]]
    /\ pc' = [pc EXCEPT ![w] = "dispatch"]
    /\ started' = started + 1
    /\ UNCHANGED aux
    /\ UNCHANGED <<start_time, now, request_times, REQUEST_COUNT, REQUEST_LATENCY,
                   past, recorded, evicted, seen, served>>

\* The handler has produced the response; after_request runs next.
Respond(w, status, body) ==
    /\ req' = [req EXCEPT ![w].status = status, ![w].body = body]
    /\ pc' = [pc EXCEPT ![w] = "append"]

\* Faulty variant of NotFoundBody: the text depends on the window.
NotFoundBody_ByHistory ==
    [error |-> IF Len(request_times) < Capacity THEN "Not found" ELSE "Not found (busy)",
     message |-> "The requested resource was not found"]

NotFoundBody ==
    [error |-> "Not found", message |-> "The requested resource was not found"]

\* app.py:55-61,178-179  MetricsAPI is a resource of the flask-restx Api, which
\* routes an exception raised in one of its resources to Api.handle_error, not
\* to the handlers registered with app.errorhandler: the answer is status 500
\* with the phrase of the status as the message.
RestxErrorBody == [message |-> "Internal Server Error"]

\* app.py:233-245  the body internal_error returns
InternalErrorBody ==
    [error |-> "Internal server error", message |-> "An unexpected error occurred"]

\* app.py:222-230  not_found: no route matches the path
not_found(w) ==
    /\ pc[w] = "dispatch"
    /\ req[w].path \notin Routes
    /\ Respond(w, 404, NotFoundBody)
    /\ UNCHANGED aux
    /\ UNCHANGED <<start_time, now, request_times, REQUEST_COUNT, REQUEST_LATENCY,
                   past, recorded, evicted, seen, served, started>>

\* Faulty variant of Uptime: measured from the start of the request.
Uptime_SinceRequest(w) == now - req[w].start_time

\* app.py:145,169  uptime = time.time() - start_time
Uptime(w) == now - start_time

\* app.py:142-152  health (the timestamp is left out of the body)
HealthResponse(w) ==
    /\ pc[w] = "dispatch"
    /\ req[w].path = "/health"
    /\ req[w].method = "GET"
    /\ Respond(w, 200, [status |-> "healthy", version |-> "1.0.0",
                        uptime |-> Uptime(w)])
    /\ UNCHANGED <<infovars, cfgvars>>
    /\ UNCHANGED <<start_time, now, request_times, REQUEST_COUNT, REQUEST_LATENCY,
                   past, recorded, evicted, seen, served, started>>

health(w) == HealthResponse(w) /\ UNCHANGED reported

\* health, with the uptime it reports kept.
health_reported(w) == HealthResponse(w) /\ reported' = Append(reported, req'[w].body.uptime)

\* app.py:161-175  StatusAPI.get (the timestamp is left out of the body), with
\* the uptime it reports kept.
StatusAPI_get(w) ==
    /\ pc[w] = "dispatch"
    /\ req[w].path = "/api/v1/status"
    /\ req[w].method = "GET"
    /\ Respond(w, 200, [status |-> "operational", version |-> "1.0.0",
                        uptime |-> Uptime(w)])
    /\ reported' = Append(reported, req'[w].body.uptime)
    /\ UNCHANGED <<infovars, cfgvars>>
    /\ UNCHANGED <<start_time, now, request_times, REQUEST_COUNT, REQUEST_LATENCY,
                   past, recorded, evicted, seen, served, started>>

\* app.py:200  @cache.cached(timeout=300)
InfoTTL == 300

\* The single key the memoized view would be stored under (the request path).
InfoKey == "view//api/v1/info"

\* Whether the cache holds an entry for the info view younger than InfoTTL.
Fresh == InfoKey \in DOMAIN cache /\ now - cache[InfoKey].stored < InfoTTL

\* app.py:210  app.config.get("ENV", "development")
Environment == IF "ENV" \in DOMAIN app_config THEN app_config["ENV"] ELSE "development"

\* Faulty variant of InfoPayload: the version counts the computations.
InfoPayload_Versioned(env) ==
    [name |-> "DevOps Demo Application",
     description |-> "A demonstration of DevOps best practices",
     version |-> IF computed = 0 THEN "1.0.0" ELSE "1.0.1",
     environment |-> env,
     features |-> <<"Health monitoring", "Metrics collection", "Structured logging",
                    "API documentation", "Caching", "Security headers">>]

\* app.py:205-218  the dictionary info() returns
InfoPayload(env) ==
    [name |-> "DevOps Demo Application",
     description |-> "A demonstration of DevOps best practices",
     version |-> "1.0.0",
     environment |-> env,
     features |-> <<"Health monitoring", "Metrics collection", "Structured logging",
                    "API documentation", "Caching", "Security headers">>]

\* app.py:200-219  info.  app.route (line 201) is applied first and registers
\* the undecorated function as the view; cache.cached (line 200) then wraps the
\* function and only rebinds the module name info, which no request goes
\* through.  The view a request reaches builds the payload and returns it.
info(w) ==
    /\ pc[w] = "dispatch"
    /\ req[w].path = "/api/v1/info"
    /\ req[w].method = "GET"
    /\ Respond(w, 200, InfoPayload(Environment))
    /\ computed' = computed + 1
    /\ UNCHANGED <<app_config, cache, cfgvars, reported>>
    /\ UNCHANGED <<start_time, now, request_times, REQUEST_COUNT, REQUEST_LATENCY,
                   past, recorded, evicted, seen, served, started>>

\* app.py:186  if request_times: ... else: (189-191)
MetricsAPI_get_test(w) ==
    /\ pc[w] = "dispatch"
    /\ req[w].path = "/api/v1/metrics"
    /\ req[w].method = "GET"
    /\ pc' = [pc EXCEPT ![w] = IF Len(request_times) # 0 THEN "m_sum" ELSE "m_total"]
    /\ req' = [req EXCEPT ![w].avg = Zero, ![w].rps = Zero]
    /\ seen' = [seen EXCEPT ![w] = {WindowId}]
    /\ UNCHANGED aux
    /\ UNCHANGED <<start_time, now, request_times, REQUEST_COUNT, REQUEST_LATENCY,
                   past, recorded, evicted, served, started>>

\* app.py:187  sum(request_times)
MetricsAPI_get_sum(w) ==
    /\ pc[w] = "m_sum"
    /\ req' = [req EXCEPT ![w].sum = Sum(request_times)]
    /\ pc' = [pc EXCEPT ![w] = "m_len"]
    /\ UNCHANGED aux
    /\ UNCHANGED <<start_time, now, request_times, REQUEST_COUNT, REQUEST_LATENCY,
                   past, recorded, evicted, seen, served, started>>

\* Faulty variant of Average: the divisor is the capacity, not the length.
Average_ByCapacity(total, n) == Rat(total, Capacity)

\* app.py:187  ... / len(request_times)
Average(total, n) == Rat(total, n)

MetricsAPI_get_len(w) ==
    /\ pc[w] = "m_len"
    /\ req' = [req EXCEPT ![w].avg = Average(req[w].sum, Len(request_times))]
    /\ pc' = [pc EXCEPT ![w] = "m_rps"]
    /\ UNCHANGED aux
    /\ UNCHANGED <<start_time, now, request_times, REQUEST_COUNT, REQUEST_LATENCY,
                   past, recorded, evicted, seen, served, started>>

\* app.py:188  len(request_times) / (time.time() - start_time)
\* A zero divisor raises ZeroDivisionError, answered with status 500 by the
\* Api the resource belongs to; the guard at app.py:186 tests the window only.
MetricsAPI_get_rps(w) ==
    /\ pc[w] = "m_rps"
    /\ LET elapsed == now - start_time
       IN IF elapsed = 0
          THEN Respond(w, 500, RestxErrorBody)
          ELSE /\ req' = [req EXCEPT ![w].rps = Rat(Len(request_times), elapsed)]
               /\ pc' = [pc EXCEPT ![w] = "m_total"]
    /\ UNCHANGED aux
    /\ UNCHANGED <<start_time, now, request_times, REQUEST_COUNT, REQUEST_LATENCY,
                   past, recorded, evicted, seen, served, started>>

\* Faulty variant of RequestsTotal: every request counted so far.
RequestsTotal_Counted == Total(REQUEST_COUNT)

\* app.py:194  "requests_total": len(request_times)
RequestsTotal == Len(request_times)

\* app.py:193-197  the returned dictionary
MetricsAPI_get_total(w) ==
    /\ pc[w] = "m_total"
    /\ Respond(w, 200, [requests_total |-> RequestsTotal,
                        requests_per_second |-> req[w].rps,
                        average_response_time |-> req[w].avg])
    /\ UNCHANGED aux
    /\ UNCHANGED <<start_time, now, request_times, REQUEST_COUNT, REQUEST_LATENCY,
                   past, recorded, evicted, seen, served, started>>

\* app.py:111-112  duration = time.time() - request.start_time; append(duration)
\* (the clock reading is local to the worker until the append publishes it)
after_request_append(w) ==
    /\ pc[w] = "append"
    /\ LET duration == now - req[w].start_time
       IN /\ req' = [req EXCEPT ![w].duration = duration]
          /\ request_times' = Append(request_times, duration)
          /\ recorded' = Append(recorded, duration)
    /\ pc' = [pc EXCEPT ![w] = "check"]
    /\ seen' = [SeenAfter(<<evicted, Appended + 1>>) EXCEPT ![w] = {}]
    /\ UNCHANGED aux
    /\ UNCHANGED <<start_time, now, REQUEST_COUNT, REQUEST_LATENCY, past, evicted,
                   served, started>>

\* Faulty variant of Overfull: the threshold is off by one.
Overfull_OffByOne(s) == Len(s) > Capacity + 1

\* app.py:115  len(request_times) > 1000
Overfull(s) == Len(s) > Capacity

after_request_check(w) ==
    /\ pc[w] = "check"
    /\ pc' = [pc EXCEPT ![w] = IF Overfull(request_times) THEN "pop" ELSE "count"]
    /\ UNCHANGED aux
    /\ UNCHANGED <<start_time, now, request_times, REQUEST_COUNT, REQUEST_LATENCY, req,
                   past, recorded, evicted, seen, served, started>>

\* Faulty variant of Pop0: pop() without the index removes the newest sample.
Pop0_Newest(s) == SubSeq(s, 1, Len(s) - 1)

\* app.py:116  request_times.pop(0)
Pop0(s) == Tail(s)

after_request_pop(w) ==
    /\ pc[w] = "pop"
    /\ request_times' = Pop0(request_times)
    /\ evicted' = evicted + 1
    /\ pc' = [pc EXCEPT ![w] = "count"]
    /\ seen' = SeenAfter(<<evicted + 1, Appended>>)
    /\ UNCHANGED aux
    /\ UNCHANGED <<start_time, now, REQUEST_COUNT, REQUEST_LATENCY, req, past, recorded,
                   served, started>>

\* Faulty variant of CounterKey: the status label is always 200.
CounterKey_Status200(r) == <<r.method, r.path, 200>>

\* app.py:119-121  the labels of the counter child
CounterKey(r) == <<r.method, r.path, r.status>>

\* app.py:119-121  REQUEST_COUNT.labels(...).inc()
after_request_count(w) ==
    /\ pc[w] = "count"
    /\ REQUEST_COUNT' = Inc(REQUEST_COUNT, CounterKey(req[w]))
    /\ pc' = [pc EXCEPT ![w] = "observe"]
    /\ UNCHANGED aux
    /\ UNCHANGED <<start_time, now, request_times, REQUEST_LATENCY, req, past, recorded,
                   evicted, seen, served, started>>

\* app.py:122-133  REQUEST_LATENCY.observe(duration); return response
after_request_observe(w) ==
    /\ pc[w] = "observe"
    /\ REQUEST_LATENCY' = Observe(REQUEST_LATENCY, req[w].duration)
    /\ served' = Tally(served, <<req[w].method, req[w].path, req[w].status>>)
    /\ req' = [req EXCEPT ![w] = NoRequest]
    /\ pc' = [pc EXCEPT ![w] = "idle"]
    /\ UNCHANGED aux
    /\ UNCHANGED <<start_time, now, request_times, REQUEST_COUNT, past, recorded, evicted,
                   seen, started>>

\* The clock advances.
Tick ==
    /\ now < MaxTime
    /\ now' = now + 1
    /\ UNCHANGED aux
    /\ UNCHANGED <<start_time, request_times, REQUEST_COUNT, REQUEST_LATENCY, pc, req,
                   past, recorded, evicted, seen, served, started>>

\* The handler and after_request of the request worker w is serving.
Serve(w) ==
    \/ not_found(w)
    \/ health(w)
    \/ MetricsAPI_get_test(w)
    \/ MetricsAPI_get_sum(w)
    \/ MetricsAPI_get_len(w)
    \/ MetricsAPI_get_rps(w)
    \/ MetricsAPI_get_total(w)
    \/ after_request_append(w)
    \/ after_request_check(w)
    \/ after_request_pop(w)
    \/ after_request_count(w)
    \/ after_request_observe(w)

Step(w) ==
    \/ \E r \in Requests : before_request(w, r[1], r[2])
    \/ Serve(w)

\* Worker threads interleave freely.
Next == Tick \/ \E w \in Workers : Step(w)

Spec == Init /\ [][Next]_vars

\* One request at a time: a request starts only while every other worker is
\* idle.
Alone(w) == \A v \in Workers \ {w} : pc[v] = "idle"

SeqStep(w) ==
    \/ \E r \in Requests : Alone(w) /\ before_request(w, r[1], r[2])
    \/ Serve(w)

SeqNext == Tick \/ \E w \in Workers : SeqStep(w)

SeqSpec == Init /\ [][SeqNext]_vars

\* after_request, whatever the handler was.
AfterRequest(w) ==
    \/ after_request_append(w)
    \/ after_request_check(w)
    \/ after_request_pop(w)
    \/ after_request_count(w)
    \/ after_request_observe(w)

\* The two endpoints that report the uptime, served by interleaving workers.
HealthRequests == {<<"GET", "/health">>, <<"GET", "/api/v1/status">>}

HealthStep(w) ==
    \/ \E r \in HealthRequests : before_request(w, r[1], r[2])
    \/ health_reported(w)
    \/ StatusAPI_get(w)
    \/ AfterRequest(w)

HealthNext == Tick \/ \E w \in Workers : HealthStep(w)

HealthSpec == Init /\ [][HealthNext]_vars

\* The info endpoint, served by interleaving workers; app.config either has no
\* ENV key or one of the values Flask puts there.
InfoRequests == {<<"GET", "/api/v1/info">>}

Environments == {"development", "production"}

InfoInit ==
    /\ \E n \in PastSizes :
         \E cfg \in {<<>>} \cup {("ENV" :> e) : e \in Environments} : AppInit(n, cfg)
    /\ ConfigInit

InfoStep(w) ==
    \/ \E r \in InfoRequests : before_request(w, r[1], r[2])
    \/ info(w)
    \/ AfterRequest(w)

InfoNext == Tick \/ \E w \in Workers : InfoStep(w)

InfoSpec == InfoInit /\ [][InfoNext]_vars

\* ------------------------------------------------------------ src/config.py

\* The environment variables the model sets, each with the values it may take.
EnvValues ==
    [FLASK_ENV |-> {"production", "staging"},
     SECRET_KEY |-> {"", "s3cret"},
     JWT_SECRET |-> {"", "jwt-s3cret"},
     PORT |-> {"65535", "65536", "http"},
     DB_PORT |-> {"0"},
     REDIS_PORT |-> {"65536"},
     DB_PASSWORD |-> {"db-pass"},
     REDIS_PASSWORD |-> {"redis-pass"},
     CACHE_PASSWORD |-> {"cache-pass"},
     HEALTH_CHECK_INTERVAL |-> {"60", "not-a-number"},
     DEBUG |-> {"True"},
     LOG_LEVEL |-> {"ERROR"}]

EnvNames == DOMAIN EnvValues

\* The absent value of an Optional[str] is <<>>, a present one is <<s>>.
None == <<>>

\* The arguments get_config is called with.
EnvironmentArgs ==
    {None} \cup {<<e>> : e \in {"development", "testing", "production", "staging",
                                "PRODUCTION", "bogus"}}

\* int(s) for the decimal literals that occur: the defaults of config.py and
\* the numeric values of EnvValues.  Any other string raises ValueError.
IntLiterals ==
    ("0" :> 0) @@ ("1" :> 1) @@ ("4" :> 4) @@ ("5" :> 5) @@ ("10" :> 10) @@
    ("12" :> 12) @@ ("20" :> 20) @@ ("30" :> 30) @@ ("60" :> 60) @@
    ("300" :> 300) @@ ("900" :> 900) @@ ("3600" :> 3600) @@ ("5432" :> 5432) @@
    ("6379" :> 6379) @@ ("8000" :> 8000) @@ ("9090" :> 9090) @@
    ("65535" :> 65535) @@ ("65536" :> 65536)

\* str.lower() for the strings that occur with an upper-case letter; a string
\* without one is returned as it is.
LowerCased == ("True" :> "true") @@ ("PRODUCTION" :> "production")

Lower(s) == IF s \in DOMAIN LowerCased THEN LowerCased[s] ELSE s

\* os.getenv(name, default)
Getenv(env, name, default) == IF name \in DOMAIN env THEN env[name] ELSE default

\* os.getenv(name): None when the variable is not set
GetenvOptional(env, name) == IF name \in DOMAIN env THEN <<env[name]>> ELSE None

\* The variables config.py passes through int().
IntNames ==
    {"DB_PORT", "DB_POOL_SIZE", "DB_MAX_OVERFLOW", "REDIS_PORT", "REDIS_DB",
     "BCRYPT_ROUNDS", "SESSION_TIMEOUT", "MAX_LOGIN_ATTEMPTS", "LOCKOUT_DURATION",
     "METRICS_PORT", "HEALTH_CHECK_INTERVAL", "CACHE_PORT", "CACHE_DB",
     "CACHE_DEFAULT_TIMEOUT", "PORT", "WORKERS", "TIMEOUT"}

\* Whether every int(os.getenv(...)) of the six from_env methods returns.
IntsParse(env) == \A name \in IntNames \cap DOMAIN env : env[name] \in DOMAIN IntLiterals

\* int(os.getenv(name, default)), where it returns
IntEnv(env, name, default) == IntLiterals[Getenv(env, name, default)]

\* os.getenv(name, default).lower() == 'true'
BoolEnv(env, name, default) == Lower(Getenv(env, name, default)) = "true"

\* The exception a from_env method raises on a string int() rejects.
Raised == [cls |-> "ValueError"]

\* config.py:27-38
DatabaseConfig_from_env(env) ==
    [host |-> Getenv(env, "DB_HOST", "localhost"),
     port |-> IntEnv(env, "DB_PORT", "5432"),
     name |-> Getenv(env, "DB_NAME", "devops_demo"),
     user |-> Getenv(env, "DB_USER", "postgres"),
     password |-> Getenv(env, "DB_PASSWORD", ""),
     ssl_mode |-> Getenv(env, "DB_SSL_MODE", "require"),
     pool_size |-> IntEnv(env, "DB_POOL_SIZE", "10"),
     max_overflow |-> IntEnv(env, "DB_MAX_OVERFLOW", "20")]

\* config.py:51-59
RedisConfig_from_env(env) ==
    [host |-> Getenv(env, "REDIS_HOST", "localhost"),
     port |-> IntEnv(env, "REDIS_PORT", "6379"),
     password |-> GetenvOptional(env, "REDIS_PASSWORD"),
     db |-> IntEnv(env, "REDIS_DB", "0"),
     ssl |-> BoolEnv(env, "REDIS_SSL", "true")]

DefaultSecretKey == "dev-secret-key-change-in-production"
DefaultJwtSecret == "jwt-secret-key-change-in-production"

\* config.py:72-82
SecurityConfig_from_env(env) ==
    [secret_key |-> Getenv(env, "SECRET_KEY", DefaultSecretKey),
     jwt_secret |-> Getenv(env, "JWT_SECRET", DefaultJwtSecret),
     bcrypt_rounds |-> IntEnv(env, "BCRYPT_ROUNDS", "12"),
     session_timeout |-> IntEnv(env, "SESSION_TIMEOUT", "3600"),
     max_login_attempts |-> IntEnv(env, "MAX_LOGIN_ATTEMPTS", "5"),
     lockout_duration |-> IntEnv(env, "LOCKOUT_DURATION", "900")]

\* config.py:94-103
MonitoringConfig_from_env(env) ==
    [prometheus_enabled |-> BoolEnv(env, "PROMETHEUS_ENABLED", "true"),
     metrics_port |-> IntEnv(env, "METRICS_PORT", "9090"),
     health_check_interval |-> IntEnv(env, "HEALTH_CHECK_INTERVAL", "30"),
     log_level |-> Getenv(env, "LOG_LEVEL", "INFO"),
     structured_logging |-> BoolEnv(env, "STRUCTURED_LOGGING", "true")]

\* config.py:117-128
CacheConfig_from_env(env) ==
    [type |-> Getenv(env, "CACHE_TYPE", "redis"),
     host |-> Getenv(env, "CACHE_HOST", "localhost"),
     port |-> IntEnv(env, "CACHE_PORT", "6379"),
     password |-> GetenvOptional(env, "CACHE_PASSWORD"),
     db |-> IntEnv(env, "CACHE_DB", "1"),
     default_timeout |-> IntEnv(env, "CACHE_DEFAULT_TIMEOUT", "300"),
     key_prefix |-> Getenv(env, "CACHE_KEY_PREFIX", "devops_demo:")]

\* config.py:141-151
AppConfig_from_env(env) ==
    [debug |-> BoolEnv(env, "DEBUG", "false"),
     testing |-> BoolEnv(env, "TESTING", "false"),
     host |-> Getenv(env, "HOST", "0.0.0.0"),
     port |-> IntEnv(env, "PORT", "8000"),
     workers |-> IntEnv(env, "WORKERS", "4"),
     timeout |-> IntEnv(env, "TIMEOUT", "30")]

\* config.py:157-205  Config.__init__: the six sections, then the Flask-facing
\* attributes, each copied from its section at this point.  The database URI
\* is kept as the fragments the f-string joins.
Config(env) ==
    LET database == DatabaseConfig_from_env(env)
        redis == RedisConfig_from_env(env)
        security == SecurityConfig_from_env(env)
        monitoring == MonitoringConfig_from_env(env)
        cache_ == CacheConfig_from_env(env)
        app == AppConfig_from_env(env)
    IN [cls |-> "Config",
        database |-> database,
        redis |-> redis,
        security |-> security,
        monitoring |-> monitoring,
        cache |-> cache_,
        app |-> app,
        SECRET_KEY |-> security.secret_key,
        DEBUG |-> app.debug,
        TESTING |-> app.testing,
        CACHE_TYPE |-> cache_.type,
        CACHE_REDIS_HOST |-> cache_.host,
        CACHE_REDIS_PORT |-> cache_.port,
        CACHE_REDIS_PASSWORD |-> cache_.password,
        CACHE_REDIS_DB |-> cache_.db,
        CACHE_DEFAULT_TIMEOUT |-> cache_.default_timeout,
        CACHE_KEY_PREFIX |-> cache_.key_prefix,
        SQLALCHEMY_DATABASE_URI |->
            <<"postgresql://", database.user, ":", database.password,
              "@", database.host, ":", database.port, "/", database.name,
              "?sslmode=", database.ssl_mode>>,
        SQLALCHEMY_ENGINE_OPTIONS |->
            [pool_size |-> database.pool_size,
             max_overflow |-> database.max_overflow,
             pool_pre_ping |-> TRUE,
             pool_recycle |-> 300],
        SESSION_COOKIE_SECURE |-> ~app.debug,
        SESSION_COOKIE_HTTPONLY |-> TRUE,
        SESSION_COOKIE_SAMESITE |-> "Lax",
        PERMANENT_SESSION_LIFETIME |-> security.session_timeout,
        LOG_LEVEL |-> monitoring.log_level,
        STRUCTURED_LOGGING |-> monitoring.structured_logging,
        PROMETHEUS_ENABLED |-> monitoring.prometheus_enabled,
        METRICS_PORT |-> monitoring.metrics_port,
        HEALTH_CHECK_INTERVAL |-> monitoring.health_check_interval]

\* config.py:278-286  super().__init__(), then the section fields are assigned
DevelopmentConfig(env) ==
    [Config(env) EXCEPT !.cls = "DevelopmentConfig",
                        !.app.debug = TRUE,
                        !.app.testing = FALSE,
                        !.monitoring.log_level = "DEBUG",
                        !.cache.type = "simple"]

\* config.py:289-298
TestingConfig(env) ==
    [Config(env) EXCEPT !.cls = "TestingConfig",
                        !.app.debug = FALSE,
                        !.app.testing = TRUE,
                        !.monitoring.log_level = "DEBUG",
                        !.cache.type = "simple",
                        !.database.name = "devops_demo_test"]

\* config.py:301-310
ProductionConfig(env) ==
    [Config(env) EXCEPT !.cls = "ProductionConfig",
                        !.app.debug = FALSE,
                        !.app.testing = FALSE,
                        !.monitoring.log_level = "WARNING",
                        !.cache.type = "redis",
                        !.security.bcrypt_rounds = 14]

\* config.py:318-324  configs.get(environment.lower(), DevelopmentConfig)
ConfigClass(name) ==
    CASE Lower(name) = "development" -> "DevelopmentConfig"
      [] Lower(name) = "testing" -> "TestingConfig"
      [] Lower(name) = "production" -> "ProductionConfig"
      [] OTHER -> "DevelopmentConfig"

\* config.py:326  config_class(): the ValueError of a from_env method is not
\* caught anywhere on the way.
Construct(cls, env) ==
    IF ~IntsParse(env) THEN Raised
    ELSE CASE cls = "DevelopmentConfig" -> DevelopmentConfig(env)
           [] cls = "TestingConfig" -> TestingConfig(env)
           [] cls = "ProductionConfig" -> ProductionConfig(env)

\* config.py:314-326  get_config(environment)
get_config(env, environment) ==
    LET name == IF environment = None
                THEN Getenv(env, "FLASK_ENV", "development")
                ELSE environment[1]
    IN Construct(ConfigClass(name), env)

\* config.py:261,264,267  the largest port accepted
PortMax == 65535

\* Faulty variant of PortInRange: the upper limit is left out.
PortInRange_NoUpper(port) == 1 <= port

\* config.py:261  1 <= port <= 65535
PortInRange(port) == 1 <= port /\ port <= PortMax

\* config.py:250-274  Config.validate: the first failed test raises ValueError
\* inside the try, which the except turns into False.
validate(c) ==
    IF c.security.secret_key = "" \/ c.security.secret_key = DefaultSecretKey THEN FALSE
    ELSE IF c.security.jwt_secret = "" \/ c.security.jwt_secret = DefaultJwtSecret THEN FALSE
    ELSE IF ~PortInRange(c.app.port) THEN FALSE
    ELSE IF ~PortInRange(c.database.port) THEN FALSE
    ELSE IF ~PortInRange(c.redis.port) THEN FALSE
    ELSE TRUE

\* Faulty variant of to_dict: the database section carries the password.
to_dict_WithPassword(c) ==
    [app |-> [debug |-> c.app.debug, testing |-> c.app.testing, host |-> c.app.host,
              port |-> c.app.port, workers |-> c.app.workers, timeout |-> c.app.timeout],
     database |-> [host |-> c.database.host, port |-> c.database.port,
                   name |-> c.database.name, user |-> c.database.user,
                   password |-> c.database.password,
                   ssl_mode |-> c.database.ssl_mode, pool_size |-> c.database.pool_size,
                   max_overflow |-> c.database.max_overflow],
     redis |-> [host |-> c.redis.host, port |-> c.redis.port, db |-> c.redis.db,
                ssl |-> c.redis.ssl],
     cache |-> [type |-> c.cache.type, host |-> c.cache.host, port |-> c.cache.port,
                db |-> c.cache.db, default_timeout |-> c.cache.default_timeout,
                key_prefix |-> c.cache.key_prefix],
     monitoring |-> [prometheus_enabled |-> c.monitoring.prometheus_enabled,
                     metrics_port |-> c.monitoring.metrics_port,
                     health_check_interval |-> c.monitoring.health_check_interval,
                     log_level |-> c.monitoring.log_level,
                     structured_logging |-> c.monitoring.structured_logging]]

\* config.py:207-248  Config.to_dict
to_dict(c) ==
    [app |-> [debug |-> c.app.debug, testing |-> c.app.testing, host |-> c.app.host,
              port |-> c.app.port, workers |-> c.app.workers, timeout |-> c.app.timeout],
     database |-> [host |-> c.database.host, port |-> c.database.port,
                   name |-> c.database.name, user |-> c.database.user,
                   ssl_mode |-> c.database.ssl_mode, pool_size |-> c.database.pool_size,
                   max_overflow |-> c.database.max_overflow],
     redis |-> [host |-> c.redis.host, port |-> c.redis.port, db |-> c.redis.db,
                ssl |-> c.redis.ssl],
     cache |-> [type |-> c.cache.type, host |-> c.cache.host, port |-> c.cache.port,
                db |-> c.cache.db, default_timeout |-> c.cache.default_timeout,
                key_prefix |-> c.cache.key_prefix],
     monitoring |-> [prometheus_enabled |-> c.monitoring.prometheus_enabled,
                     metrics_port |-> c.monitoring.metrics_port,
                     health_check_interval |-> c.monitoring.health_check_interval,
                     log_level |-> c.monitoring.log_level,
                     structured_logging |-> c.monitoring.structured_logging]]

\* Everything src/app.py owns.
appvars == <<start_time, now, request_times, REQUEST_COUNT, REQUEST_LATENCY, pc, req,
             past, recorded, evicted, seen, served, started, infovars, reported>>

\* Whether get_config has returned a configuration.
Built == config.cls \notin {"none", "ValueError"}

\* The environment is set before the configuration is built from it.
setenv(name, value) ==
    /\ config = NoConfig
    /\ name \notin DOMAIN environ
    /\ Cardinality(DOMAIN environ) < MaxEnvSet
    /\ environ' = environ @@ (name :> value)
    /\ UNCHANGED <<config, asked, validated, dumped, appvars>>

\* config = get_config(environment)
call_get_config(environment) ==
    /\ config = NoConfig
    /\ config' = get_config(environ, environment)
    /\ asked' = <<environment>>
    /\ UNCHANGED <<environ, validated, dumped, appvars>>

\* config.validate()
call_validate ==
    /\ Built
    /\ validated = <<>>
    /\ validated' = <<validate(config)>>
    /\ UNCHANGED <<environ, config, asked, dumped, appvars>>

\* config.to_dict()
call_to_dict ==
    /\ Built
    /\ dumped = <<>>
    /\ dumped' = <<to_dict(config)>>
    /\ UNCHANGED <<environ, config, asked, validated, appvars>>

ConfigNext ==
    \/ \E name \in EnvNames : \E value \in EnvValues[name] : setenv(name, value)
    \/ \E environment \in EnvironmentArgs : call_get_config(environment)
    \/ call_validate
    \/ call_to_dict

\* A process that has served nothing yet builds its configuration.
ConfigSpecInit == AppInit(0, <<>>) /\ ConfigInit

ConfigSpec == ConfigSpecInit /\ [][ConfigNext]_vars

\* ----------------------------------------------------------------- claims

AllIdle == \A w \in Workers : pc[w] = "idle"

\* No worker has appended a sample without having finished its eviction step.
NoRecordInProgress == \A w \in Workers : pc[w] \notin {"check", "pop"}

\* The last n elements of s.
LastN(s, n) == SubSeq(s, Len(s) - n + 1, Len(s))

\* C1: the window holds at most 1000 samples whenever every record() begun
\* (append, then the eviction step) has completed.
C1_WindowBounded ==
    NoRecordInProgress => Len(request_times) <= Capacity

\* A record() that evicted has completed and left a full window.
C1_Witness ==
    /\ NoRecordInProgress
    /\ evicted >= 1
    /\ Len(request_times) = Capacity

\* C2: when requests are served one after the other, after n record() calls the
\* window is exactly the last min(n, 1000) recorded durations, in arrival order.
C2_WindowIsRecentHistory ==
    NoRecordInProgress =>
        request_times = LastN(history, Min(Len(history), Capacity))

\* More than 1000 durations were recorded, the evicted one differs from its
\* successor, and the window starts at the successor.
C2_Witness ==
    /\ NoRecordInProgress
    /\ Len(history) > Capacity
    /\ history[1] # history[2]
    /\ request_times[1] = history[Len(history) - Capacity + 1]

\* C3: with workers interleaving freely, once every record() has finished the
\* window length is min(N, 1000), N the number of record() calls so far.
C3_NoLostUpdate ==
    AllIdle => Len(request_times) = Min(Appended, Capacity)

\* C4: access to the window is mutually exclusive: no worker appends while
\* another is between its append and its eviction, and no metrics response
\* reports a window longer than 1000.
MetricsAnswered(w) ==
    /\ pc[w] = "append"
    /\ req[w].path = "/api/v1/metrics"
    /\ req[w].status = 200

C4_WindowExclusive ==
    /\ \A w, v \in Workers :
          (w # v /\ pc[w] \in {"check", "pop"}) => pc[v] \notin {"check", "pop"}
    /\ \A w \in Workers :
          MetricsAnswered(w) => req[w].body.requests_total <= Capacity

\* The arithmetic mean of s, 0 for the empty sequence.
MeanOf(s) == IF Len(s) = 0 THEN Zero ELSE Rat(Sum(s), Len(s))

\* C5: a metrics response is computed from one window state that existed
\* while its handler ran: the average is that state's mean and requests_total
\* is that state's length.
C5_ConsistentSnapshot ==
    \A w \in Workers :
        MetricsAnswered(w) =>
            \E id \in seen[w] :
                LET win == WindowAt(id[1], id[2])
                IN /\ req[w].body.requests_total = Len(win)
                   /\ RatEq(req[w].body.average_response_time, MeanOf(win))

\* C6: served alone, the metrics handler's average is 0 for the empty window
\* and otherwise the mean of the samples in the window at that time.
C6_AverageIsMean ==
    \A w \in Workers :
        MetricsAnswered(w) =>
            /\ RatEq(req[w].body.average_response_time, MeanOf(request_times))
            /\ Len(request_times) = 0 => req[w].body.average_response_time = Zero

\* A sample has been evicted, and the average returned is the mean of the
\* window and not the mean of everything recorded.
C6_Witness ==
    \E w \in Workers :
        /\ MetricsAnswered(w)
        /\ evicted >= 1
        /\ RatEq(req[w].body.average_response_time, MeanOf(request_times))
        /\ ~RatEq(req[w].body.average_response_time, MeanOf(history))

\* C7: the metrics handler never fails on the rate: it answers 200, and with
\* no time elapsed since process start the rate it returns is 0.
C7_RateGuarded ==
    \A w \in Workers :
        (pc[w] = "append" /\ req[w].path = "/api/v1/metrics") =>
            /\ req[w].status = 200
            /\ now - start_time <= 0 => RatEq(req[w].body.requests_per_second, Zero)

\* C8: the increment raises the count of the request's (method, path, status)
\* by one, creating it at 1, and changes no other count.
C8_IncrementFrame ==
    [][\A w \in Workers :
          (pc[w] = "count" /\ pc'[w] = "observe") =>
              LET k == <<req[w].method, req[w].path, req[w].status>>
              IN /\ DOMAIN REQUEST_COUNT' = DOMAIN REQUEST_COUNT \cup {k}
                 /\ REQUEST_COUNT'[k] = ValueAt(REQUEST_COUNT, k) + 1
                 /\ \A j \in DOMAIN REQUEST_COUNT \ {k} :
                       REQUEST_COUNT'[j] = REQUEST_COUNT[j]]_vars

\* Two requests GET /health answered 200 since process start: the count is 2.
C8_Witness ==
    /\ past = 0
    /\ ValueAt(REQUEST_COUNT, <<"GET", "/health", 200>>) = 2

\* C9: no step lowers a request counter or a histogram bucket, or removes a
\* counter.
C9_Monotonic ==
    [][/\ \A k \in DOMAIN REQUEST_COUNT :
             k \in DOMAIN REQUEST_COUNT' /\ REQUEST_COUNT'[k] >= REQUEST_COUNT[k]
       /\ \A b \in Buckets :
             REQUEST_LATENCY'.buckets[b] >= REQUEST_LATENCY.buckets[b]]_vars

\* Counters and buckets that held 1000 requests have grown further.
C9_Witness ==
    /\ past = Capacity
    /\ AllIdle
    /\ Total(REQUEST_COUNT) = Capacity + MaxRequests
    /\ SumOver(REQUEST_LATENCY.buckets, Buckets) = Capacity + MaxRequests

\* The workers at one of the positions P.
At(P) == {w \in Workers : pc[w] \in P}

\* C10: every request is recorded exactly once, between its handler and its
\* return: the samples appended, the counts per (method, path, status) and the
\* latency observations are those of the requests returned plus those of the
\* requests that have passed the step.
Keys == DOMAIN REQUEST_COUNT \cup DOMAIN served

C10_RecordedOnce ==
    /\ Appended = Total(served) + Cardinality(At({"check", "pop", "count", "observe"}))
    /\ \A k \in Keys :
          ValueAt(REQUEST_COUNT, k) =
              ValueAt(served, k)
              + Cardinality({w \in At({"observe"}) :
                                <<req[w].method, req[w].path, req[w].status>> = k})
    /\ SumOver(REQUEST_LATENCY.buckets, Buckets) = Total(served)

\* A request for an unknown path was answered 404 and recorded once.
C10_Witness ==
    /\ AllIdle
    /\ past = 0
    /\ ValueAt(served, <<"GET", "/nonexistent", 404>>) = 1
    /\ ValueAt(REQUEST_COUNT, <<"GET", "/nonexistent", 404>>) = 1
    /\ Len(request_times) = Total(served)


\* C11: start_time is never modified by any step; every uptime a health
\* endpoint reports is now - start_time, is >= 0, and is >= the uptime reported
\* by the call before it.
C11_UptimeNonDecreasing ==
    [][/\ start_time' = start_time
       /\ reported' # reported =>
            /\ Len(reported') = Len(reported) + 1
            /\ reported'[Len(reported')] = now - start_time
            /\ reported'[Len(reported')] >= 0
            /\ \A i \in 1..Len(reported) :
                  /\ reported'[i] = reported[i]
                  /\ reported'[Len(reported')] >= reported[i]]_vars

\* Two status calls, the second answered after the clock has advanced.
C11_Witness ==
    /\ Len(reported) = 2
    /\ reported[2] > reported[1]
    /\ \E w \in Workers :
        /\ pc[w] = "append"
        /\ req[w].path = "/api/v1/status"
        /\ req[w].body.uptime = reported[2]

\* C12: the info payload is memoized for InfoTTL seconds: a request answered
\* while a fresh entry exists does not build the payload, and a request
\* answered without one builds it and stores it with age zero.
AnswersInfo(w) ==
    /\ pc[w] = "dispatch"
    /\ req[w].path = "/api/v1/info"
    /\ pc'[w] = "append"

C12_InfoMemoized ==
    [][\A w \in Workers :
          AnswersInfo(w) =>
              IF Fresh
              THEN computed' = computed /\ cache' = cache
              ELSE /\ computed' = computed + 1
                   /\ InfoKey \in DOMAIN cache'
                   /\ cache'[InfoKey].stored = now
                   /\ cache'[InfoKey].value = req'[w].body]_vars

\* The literal content of app.py:205-218 for an environment name.
InfoContent(env) ==
    [name |-> "DevOps Demo Application",
     description |-> "A demonstration of DevOps best practices",
     version |-> "1.0.0",
     environment |-> env,
     features |-> <<"Health monitoring", "Metrics collection", "Structured logging",
                    "API documentation", "Caching", "Security headers">>]

\* C13: app.config is never changed by a request, and every info response is
\* 200 with the content fixed by app.config alone, so any two responses of one
\* process are identical whatever the history, the counters and the clock.
C13_InfoIdentical ==
    [][/\ app_config' = app_config
       /\ \A w \in Workers :
             AnswersInfo(w) =>
                 /\ req'[w].status = 200
                 /\ req'[w].body =
                        InfoContent(IF "ENV" \in DOMAIN app_config
                                    THEN app_config["ENV"] ELSE "development")]_vars

\* The second info response of a process, answered after the first has been
\* counted and the clock has advanced.
C13_Witness ==
    /\ computed = 2
    /\ Total(REQUEST_COUNT) >= 1
    /\ now > 0
    /\ "ENV" \in DOMAIN app_config
    /\ \E w \in Workers :
          /\ pc[w] = "append"
          /\ req[w].path = "/api/v1/info"
          /\ req[w].body = InfoContent(app_config["ENV"])

\* The workers whose request has been answered and is being recorded.
Answered == At({"append", "check", "pop", "count", "observe"})

\* C14: a request whose path matches no route is answered 404 with the fixed
\* body whose error field is "Not found", whatever the history.
C14_NotFoundFixed ==
    \A w \in Answered :
        req[w].path \notin Routes =>
            /\ req[w].status = 404
            /\ req[w].body = [error |-> "Not found",
                              message |-> "The requested resource was not found"]

\* An unknown path answered 404 by a process whose window is full.
C14_Witness ==
    /\ past = Capacity
    /\ Len(request_times) = Capacity
    /\ \E w \in Answered :
          /\ req[w].path = "/nonexistent"
          /\ req[w].status = 404
          /\ req[w].body.error = "Not found"

\* C15: a request that fails with an unexpected exception is answered 500 with
\* the fixed body of internal_error.
C15_InternalErrorFixed ==
    \A w \in Answered :
        req[w].status = 500 => req[w].body = InternalErrorBody

\* The name get_config resolves: its argument, or FLASK_ENV when it has none.
AskedName ==
    IF asked[1] = None THEN Getenv(environ, "FLASK_ENV", "development") ELSE asked[1][1]

\* C16: get_config selects the configuration of the named environment for
\* development, testing, production and staging, the development one for any
\* other name, and resolves a missing name from FLASK_ENV.
C16_SelectsNamed ==
    (asked # <<>> /\ config.cls # "ValueError") =>
        config.cls = CASE Lower(AskedName) = "development" -> "DevelopmentConfig"
                       [] Lower(AskedName) = "testing" -> "TestingConfig"
                       [] Lower(AskedName) = "production" -> "ProductionConfig"
                       [] Lower(AskedName) = "staging" -> "StagingConfig"
                       [] OTHER -> "DevelopmentConfig"

\* C17: the Flask-facing settings of each environment configuration carry the
\* overrides of its environment.
C17_TopLevelOverrides ==
    /\ config.cls = "DevelopmentConfig" =>
          /\ config.DEBUG = TRUE
          /\ config.LOG_LEVEL = "DEBUG"
          /\ config.CACHE_TYPE = "simple"
    /\ config.cls = "TestingConfig" =>
          /\ config.TESTING = TRUE
          /\ config.DEBUG = FALSE
          /\ config.LOG_LEVEL = "DEBUG"
          /\ config.CACHE_TYPE = "simple"
    /\ config.cls = "ProductionConfig" =>
          /\ config.DEBUG = FALSE
          /\ config.LOG_LEVEL = "WARNING"
          /\ config.CACHE_TYPE = "redis"
          /\ config.SESSION_COOKIE_SECURE = TRUE

\* C18: with a non-numeric HEALTH_CHECK_INTERVAL the configuration is built
\* without raising and the setting has its default, 30.
C18_NonNumericDefaults ==
    (/\ asked # <<>>
     /\ "HEALTH_CHECK_INTERVAL" \in DOMAIN environ
     /\ environ["HEALTH_CHECK_INTERVAL"] \notin DOMAIN IntLiterals) =>
        /\ config.cls # "ValueError"
        /\ config.HEALTH_CHECK_INTERVAL = 30

\* C19: validate() returns (it never raises), leaves the configuration as it
\* was, and returns True exactly when both secrets are non-empty and not the
\* development defaults and the app, database and redis ports are in 1..65535.
C19_ValidateExact ==
    [][validated' # validated =>
          /\ config' = config
          /\ validated' =
                <<(/\ config.security.secret_key
                         \notin {"", "dev-secret-key-change-in-production"}
                   /\ config.security.jwt_secret
                         \notin {"", "jwt-secret-key-change-in-production"}
                   /\ config.app.port \in 1..65535
                   /\ config.database.port \in 1..65535
                   /\ config.redis.port \in 1..65535)>>]_vars

\* validate() returned True for a configuration whose app port is the largest
\* one allowed.
C19_Witness ==
    /\ validated = <<TRUE>>
    /\ config.app.port = 65535
    /\ config.security.secret_key = "s3cret"

\* The variables that hold sensitive data.
SecretNames == {"SECRET_KEY", "JWT_SECRET", "DB_PASSWORD", "REDIS_PASSWORD", "CACHE_PASSWORD"}

\* The environments that differ from env at most in the sensitive variables:
\* each keeps its setting or takes another value.
SecretVariants(env) ==
    LET rest == [name \in DOMAIN env \ SecretNames |-> env[name]]
    IN {rest @@ [name \in (DOMAIN env \cap SecretNames) \ S |-> env[name]]
             @@ [name \in S |-> "rotated"] : S \in SUBSET SecretNames}

\* The sensitive values of a configuration.
SecretValues(c) ==
    {c.security.secret_key, c.security.jwt_secret, c.database.password}
        \cup {c.redis.password[i] : i \in DOMAIN c.redis.password}
        \cup {c.cache.password[i] : i \in DOMAIN c.cache.password}

\* The string values of a dictionary of sections.
StringKeys ==
    {"host", "name", "user", "password", "ssl_mode", "type", "key_prefix", "log_level",
     "secret_key", "jwt_secret"}

StringValues(d) ==
    UNION {{d[s][k] : k \in DOMAIN d[s] \cap StringKeys} : s \in DOMAIN d}

\* C20: to_dict() returns the same dictionary for every configuration that
\* differs only in the sensitive values, and none of them appears in it.
C20_ToDictExcludesSecrets ==
    dumped # <<>> =>
        /\ \A env \in SecretVariants(environ) :
              to_dict(Construct(config.cls, env)) = dumped[1]
        /\ StringValues(dumped[1]) \cap SecretValues(config) = {}

\* The dictionary of a configuration whose secrets and passwords are all set.
C20_Witness ==
    /\ dumped # <<>>
    /\ config.security.secret_key = "s3cret"
    /\ config.database.password = "db-pass"
    /\ config.redis.password = <<"redis-pass">>

====
